---- MODULE Spec2Model ----
(***************************************************************************)
(* A model of pyroed's regression model (pyroed/models.py), its posterior  *)
(* samplers (pyroed/inference.py) and the PBX4 rollout driver              *)
(* (examples/rollout_tf8.py).                                              *)
(*                                                                         *)
(* Tensors are sequences (1-based rows); a design is a tuple of 0-based    *)
(* category indices, one per schema variable; a schema variable is named   *)
(* by its position.  Continuous draws are taken from small integer sets.   *)
(* The schema is cut from 8 nucleotides of 4 letters to 3 of 2.            *)
(***************************************************************************)
EXTENDS Integers, Sequences, FiniteSets, TLC

VARIABLES
    \* rollout driver (examples/rollout_tf8.py: main)
    data, args, experiments, batch, response_curve, main_pc,
    \* one call of make_design and the design search it starts
    s_request, s_call, s_state, s_visited, s_step, s_result, s_pc,
    \* calls of linear_response (pyroed/models.py)
    l_in, l_out, l_prev, l_changed, l_pc,
    \* one call of model (pyroed/models.py)
    m_in, m_pc, m_trace, m_coefs, m_loc, m_obs, m_error,
    \* fit_mcmc and the Sampler it returns (pyroed/inference.py)
    f_samples, f_sampler, f_last, f_pc

vars_main == <<data, args, experiments, batch, response_curve, main_pc>>

vars_search == <<s_request, s_call, s_state, s_visited, s_step, s_result, s_pc>>

vars_linear == <<l_in, l_out, l_prev, l_changed, l_pc>>

vars_model == <<m_in, m_pc, m_trace, m_coefs, m_loc, m_obs, m_error>>

vars_sampler == <<f_samples, f_sampler, f_last, f_pc>>

vars == <<vars_main, vars_search, vars_linear, vars_model, vars_sampler>>

not_main == <<vars_search, vars_linear, vars_model, vars_sampler>>

not_search == <<vars_main, vars_linear, vars_model, vars_sampler>>

not_linear == <<vars_main, vars_search, vars_model, vars_sampler>>

not_model == <<vars_main, vars_search, vars_linear, vars_sampler>>

not_sampler == <<vars_main, vars_search, vars_linear, vars_model>>

----------------------------------------------------------------------------
(* Bounds *)

\* rounds of the rollout (--num-batches)
NumBatches == 2

\* proposals of one design search (sa_num_steps, 400 in make_design)
SaNumSteps == 2

\* largest scale of a drawn coefficient tensor
MaxCoef == 1

\* largest batch id of an experiment given to model
MaxBatchId == 2

\* largest quantization_bins given to model (100 by default)
MaxBins == 2

\* most draws a run of MCMC hands to Sampler (num_samples * num_chains)
MaxDraws == 3

----------------------------------------------------------------------------
(* Helpers on sequences and sets *)

Range(s) == {s[i] : i \in DOMAIN s}

RECURSIVE SeqMax(_)
\* Tensor.max() of a non-empty 1-d tensor
SeqMax(s) ==
    IF Len(s) = 1 THEN s[1]
    ELSE LET m == SeqMax(Tail(s)) IN IF s[1] >= m THEN s[1] ELSE m

\* tuple comparison, as Python compares tuples
LexLess(a, b) ==
    \E i \in 1..Len(a) : /\ i <= Len(b)
                         /\ a[i] < b[i]
                         /\ \A j \in 1..(i - 1) : a[j] = b[j]

RECURSIVE sorted(_)
\* sorted(design) of a set of tuples of equal length
sorted(S) ==
    IF S = {} THEN <<>>
    ELSE LET m == CHOOSE x \in S : \A y \in S \ {x} : LexLess(x, y)
         IN <<m>> \o sorted(S \ {m})

----------------------------------------------------------------------------
(* Module-level configuration of the rollout *)

Nucleotides == <<"A", "C">>

NucleotideNames == 1..3

SCHEMA == [n \in NucleotideNames |-> Nucleotides]

CONSTRAINTS == <<>>

singletons == [n \in 1..Len(SCHEMA) |-> <<n>>]

pairs == [n \in 1..(Len(SCHEMA) - 1) |-> <<n, n + 1>>]

triples == [n \in 1..(Len(SCHEMA) - 2) |-> <<n, n + 1, n + 2>>]

SINGLETON_BLOCKS == singletons

PAIRWISE_BLOCKS == singletons \o pairs

GIBBS_BLOCKS == triples

\* every design of a schema: one category index per variable
Designs(schema) ==
    LET categories == UNION {0..(Len(schema[n]) - 1) : n \in DOMAIN schema}
    IN {d \in [DOMAIN schema -> categories] : \A n \in DOMAIN schema : d[n] < Len(schema[n])}

\* a design is feasible iff every constraint predicate holds of it; a
\* constraint is given as the set of designs it admits
Feasible(constraints, d) == \A c \in DOMAIN constraints : d \in constraints[c]

----------------------------------------------------------------------------------------------------------------------------------------
(* Tensors *)

\* the index tuples of a tensor of the given shape (0-based, one per dim)
Indices(shape) ==
    LET entries == UNION {0..(shape[i] - 1) : i \in DOMAIN shape}
    IN {idx \in [DOMAIN shape -> entries] : \A i \in DOMAIN shape : idx[i] < shape[i]}

RECURSIVE FlatIndex(_, _)
\* the row-major position of an index tuple
FlatIndex(shape, idx) ==
    IF Len(shape) = 0 THEN 0
    ELSE LET n == Len(shape)
         IN idx[n] + shape[n] * FlatIndex(SubSeq(shape, 1, n - 1), SubSeq(idx, 1, n - 1))

\* a drawn tensor: all entries distinct, scaled by a (a = 0: torch.zeros(shape))
Ramp(shape, a) ==
    [shape |-> shape,
     val |-> [idx \in Indices(shape) |-> a * (1 + FlatIndex(shape, idx))]]

\* the tensors a Normal(zeros(shape), scale) draw is taken from
DrawnTensors(shape) == {Ramp(shape, a) : a \in 0..MaxCoef}

\* coef.dim()
Dim(coef) == Len(coef.shape)

\* the entry of an ordered coefs dict under a block key, or under None
Item(key, coef) == [none |-> FALSE, key |-> key, coef |-> coef]

NoneItem(coef) == [none |-> TRUE, key |-> <<>>, coef |-> coef]

\* None in coefs
HasNone(coefs) == \E i \in DOMAIN coefs : coefs[i].none

\* coefs[None]
CoefNone(coefs) == coefs[CHOOSE i \in DOMAIN coefs : coefs[i].none].coef

\* extra_features: None, or one feature vector per row
NoExtra == [none |-> TRUE, rows |-> <<>>]

Extra(rows) == [none |-> FALSE, rows |-> rows]

RECURSIVE Dot(_, _)
\* extra_features @ coefs[None] for one row
Dot(row, coef) ==
    IF Len(row) = 0 THEN 0
    ELSE Dot(SubSeq(row, 1, Len(row) - 1), coef)
            + row[Len(row)] * coef.val[<<Len(row) - 1>>]

----------------------------------------------------------------------------
(* linear_response *)

Ok(value) == [error |-> "none", value |-> value]

Raise(error) == [error |-> error, value |-> <<>>]

\* the assertions linear_response makes before its loop
LinearPreconditions(schema, coefs, sequence, extra_features) ==
    /\ \A r \in DOMAIN sequence : Len(sequence[r]) = Len(schema)
    /\ IF extra_features.none
       THEN ~HasNone(coefs)
       ELSE /\ HasNone(coefs)
            /\ Dim(CoefNone(coefs)) = 1
            /\ Len(extra_features.rows) = Len(sequence)
            /\ \A r \in DOMAIN extra_features.rows :
                  Len(extra_features.rows[r]) = CoefNone(coefs).shape[1]

\* index = tuple(choices[name] for name in key), for one row
KeyIndex(key, row) == [i \in 1..Len(key) |-> row[key[i]]]

\* the index of a block taken by position instead of by name
KeyIndexPositional(key, row) == [i \in 1..Len(key) |-> row[i]]

RECURSIVE linear_loop_positional(_, _, _, _, _, _)
linear_loop_positional(schema, coefs, sequence, extra_features, k, result) ==
    IF k > Len(coefs) THEN Ok(result)
    ELSE LET item == coefs[k] IN
         IF item.none
         THEN linear_loop_positional(schema, coefs, sequence, extra_features, k + 1,
                  [r \in DOMAIN sequence |->
                      result[r] + Dot(extra_features.rows[r], item.coef)])
         ELSE IF Dim(item.coef) # Len(item.key) THEN Raise("AssertionError")
         ELSE IF \E i \in DOMAIN item.key : item.key[i] \notin DOMAIN schema
              THEN Raise("KeyError")
         ELSE IF \E r \in DOMAIN sequence :
                    KeyIndexPositional(item.key, sequence[r]) \notin Indices(item.coef.shape)
              THEN Raise("IndexError")
         ELSE linear_loop_positional(schema, coefs, sequence, extra_features, k + 1,
                  [r \in DOMAIN sequence |->
                      result[r] + item.coef.val[KeyIndexPositional(item.key, sequence[r])]])

RECURSIVE linear_loop(_, _, _, _, _, _)
\* the loop over coefs.items(), from entry k on, with the result so far
linear_loop(schema, coefs, sequence, extra_features, k, result) ==
    IF k > Len(coefs) THEN Ok(result)
    ELSE LET item == coefs[k] IN
         IF item.none
         THEN linear_loop(schema, coefs, sequence, extra_features, k + 1,
                  [r \in DOMAIN sequence |->
                      result[r] + Dot(extra_features.rows[r], item.coef)])
         ELSE IF Dim(item.coef) # Len(item.key) THEN Raise("AssertionError")
         ELSE IF \E i \in DOMAIN item.key : item.key[i] \notin DOMAIN schema
              THEN Raise("KeyError")
         ELSE IF \E r \in DOMAIN sequence :
                    KeyIndex(item.key, sequence[r]) \notin Indices(item.coef.shape)
              THEN Raise("IndexError")
         ELSE linear_loop(schema, coefs, sequence, extra_features, k + 1,
                  [r \in DOMAIN sequence |->
                      result[r] + item.coef.val[KeyIndex(item.key, sequence[r])]])

\* linear_response looking a block's categories up by position
linear_response_positional(schema, coefs, sequence, extra_features) ==
    IF ~LinearPreconditions(schema, coefs, sequence, extra_features)
    THEN Raise("AssertionError")
    ELSE linear_loop_positional(schema, coefs, sequence, extra_features, 1,
                                [r \in DOMAIN sequence |-> 0])

\* linear_response on a batch of sequences, outside jit tracing
linear_response(schema, coefs, sequence, extra_features) ==
    IF ~LinearPreconditions(schema, coefs, sequence, extra_features)
    THEN Raise("AssertionError")
    ELSE linear_loop(schema, coefs, sequence, extra_features, 1,
                     [r \in DOMAIN sequence |-> 0])

----------------
(* The dataset *)

AllSequences == sorted(Designs(SCHEMA))

\* the measured response of every row, as integer affinities
ResponseTables ==
    { [i \in 1..Len(AllSequences) |-> i],
      [i \in 1..Len(AllSequences) |-> (5 * i) % 7] }

\* load_tf_data(): an exhaustive table of sequences, responses and batch ids
load_tf_data(responses) ==
    [sequences |-> AllSequences,
     responses |-> responses,
     batch_ids |-> [i \in 1..Len(AllSequences) |-> 0]]

\* data["seq_to_id"]: the row of each sequence (a later duplicate wins)
seq_to_id(d, seq) ==
    CHOOSE i \in 1..Len(d.sequences) :
        /\ d.sequences[i] = seq
        /\ \A j \in (i + 1)..Len(d.sequences) : d.sequences[j] # seq

\* v[ids]: index a 1-d tensor (or the rows of a 2-d one) by a list of rows
Index(v, ids) == [i \in 1..Len(ids) |-> v[ids[i]]]

----------------------------------------------------------------------------
(* update_experiment *)

update_experiment_prepend(experiment, design, d) ==
    LET srt == sorted(design)
        ids == [i \in 1..Len(srt) |-> seq_to_id(d, srt[i])]
        new_data == [sequences |-> Index(d.sequences, ids),
                     responses |-> Index(d.responses, ids),
                     batch_ids |-> [i \in 1..Len(ids) |-> 0]]
    IN [k \in DOMAIN experiment |-> new_data[k] \o experiment[k]]

update_experiment(experiment, design, d) ==
    LET srt == sorted(design)
        ids == [i \in 1..Len(srt) |-> seq_to_id(d, srt[i])]
        new_data == [sequences |-> Index(d.sequences, ids),
                     responses |-> Index(d.responses, ids),
                     batch_ids |-> [i \in 1..Len(ids) |-> 0]]
    IN [k \in DOMAIN experiment |-> experiment[k] \o new_data[k]]

----------------------------------------------------------------------------------------------------------------------------------------
(* make_design and the design search *)

\* make_design asking the search for one design fewer than it was asked for
make_design_short(experiment, design_size, thompson_temperature, feature_blocks) ==
    [schema |-> SCHEMA,
     constraints |-> CONSTRAINTS,
     feature_blocks |-> feature_blocks,
     gibbs_blocks |-> GIBBS_BLOCKS,
     experiment |-> experiment,
     design_size |-> design_size - 1,
     thompson_temperature |-> thompson_temperature,
     inference |-> "svi",
     sa_num_steps |-> SaNumSteps]

\* make_design: the arguments with which it calls thompson_sample
make_design(experiment, design_size, thompson_temperature, feature_blocks) ==
    [schema |-> SCHEMA,
     constraints |-> CONSTRAINTS,
     feature_blocks |-> feature_blocks,
     gibbs_blocks |-> GIBBS_BLOCKS,
     experiment |-> experiment,
     design_size |-> design_size,
     thompson_temperature |-> thompson_temperature,
     inference |-> "svi",
     sa_num_steps |-> SaNumSteps]

FeasibleDesigns(call) ==
    {d \in Designs(call.schema) : Feasible(call.constraints, d)}

Fatal == [fatal |-> TRUE, design |-> {}]

Returned(S) == [fatal |-> FALSE, design |-> S]

\* what a call of thompson_sample can hand back: design_size distinct feasible
\* designs, or a fatal failure when the search could not assemble that many
thompson_sample_returns(call) ==
    {Returned(S) : S \in {T \in SUBSET FeasibleDesigns(call) :
                             Cardinality(T) = call.design_size}} \cup {Fatal}

\* the starting pool of a search: the designs of the experiment that are
\* feasible, or one random feasible seed
StartingPools(call) ==
    {{d} : d \in FeasibleDesigns(call)}
        \cup ({Range(call.experiment.sequences) \cap FeasibleDesigns(call)} \ {{}})

\* a local move: resample every variable of one block, the rest held fixed
LocalMoves(call, state) ==
    {d \in Designs(call.schema) :
        \E b \in DOMAIN call.gibbs_blocks :
            \A n \in DOMAIN call.schema :
                n \notin Range(call.gibbs_blocks[b]) => d[n] = state[n]}

----------------------------------------------------------------------------
(* main *)

\* torch.randperm(n)[:m]: m distinct rows in any order
RandpermPrefix(n, m) ==
    {p \in [1..m -> 1..n] : \A i, j \in 1..m : i # j => p[i] # p[j]}

BatchSizes == {1, 2}

Features == {"singleton", "pairwise"}

Args ==
    [num_initial_sequences : {1},
     num_sequences_per_batch : BatchSizes,
     num_batches : {NumBatches},
     thompson_temperature : {1},
     features : Features]

\* the initial experiments main can draw from a dataset
InitialExperiments(d, m) ==
    {[k \in DOMAIN d |-> Index(d[k], ids)] : ids \in RandpermPrefix(Len(d.sequences), m)}

FeatureBlocks(features) ==
    IF features = "singleton" THEN SINGLETON_BLOCKS ELSE PAIRWISE_BLOCKS

IdleMain ==
    /\ data = <<>>
    /\ args = <<>>
    /\ experiments = <<>>
    /\ batch = 0
    /\ response_curve = <<>>
    /\ main_pc = "idle"

IdleLinear ==
    /\ l_in = <<>>
    /\ l_out = <<>>
    /\ l_prev = <<>>
    /\ l_changed = 0
    /\ l_pc = "off"

IdleModel ==
    /\ m_in = <<>>
    /\ m_pc = "off"
    /\ m_trace = <<>>
    /\ m_coefs = <<>>
    /\ m_loc = <<>>
    /\ m_obs = <<>>
    /\ m_error = "none"

IdleSampler ==
    /\ f_samples = <<>>
    /\ f_sampler = <<>>
    /\ f_last = <<>>
    /\ f_pc = "off"

IdleSearch ==
    /\ s_request = <<>>
    /\ s_call = <<>>
    /\ s_state = <<>>
    /\ s_visited = {}
    /\ s_step = 0
    /\ s_result = {}
    /\ s_pc = "off"

InitMain ==
    /\ args \in Args
    /\ \E responses \in ResponseTables : data = load_tf_data(responses)
    /\ experiments \in {<<e>> : e \in InitialExperiments(data, args.num_initial_sequences)}
    /\ batch = 0
    /\ response_curve = <<>>
    /\ main_pc = "loop"
    /\ IdleSearch
    /\ IdleLinear
    /\ IdleModel
    /\ IdleSampler

\* the for loop of main taking a stale experiment as the base of the round
main_loop_stale ==
    /\ main_pc = "loop"
    /\ batch < args.num_batches
    /\ \E out \in thompson_sample_returns(
                      make_design(experiments[1],
                                  args.num_sequences_per_batch,
                                  args.thompson_temperature,
                                  FeatureBlocks(args.features))) :
          IF out.fatal
          THEN /\ main_pc' = "fatal"
               /\ UNCHANGED <<experiments, batch>>
          ELSE /\ experiments' = Append(experiments,
                     update_experiment(experiments[1], out.design, data))
               /\ batch' = batch + 1
               /\ main_pc' = "loop"
    /\ UNCHANGED <<data, args, response_curve>>
    /\ UNCHANGED not_main

\* one pass of the for loop of main: make_design, then update_experiment
main_loop ==
    /\ main_pc = "loop"
    /\ batch < args.num_batches
    /\ \E out \in thompson_sample_returns(
                      make_design(experiments[Len(experiments)],
                                  args.num_sequences_per_batch,
                                  args.thompson_temperature,
                                  FeatureBlocks(args.features))) :
          IF out.fatal
          THEN /\ main_pc' = "fatal"
               /\ UNCHANGED <<experiments, batch>>
          ELSE /\ experiments' = Append(experiments,
                     update_experiment(experiments[Len(experiments)], out.design, data))
               /\ batch' = batch + 1
               /\ main_pc' = "loop"
    /\ UNCHANGED <<data, args, response_curve>>
    /\ UNCHANGED not_main

\* after the loop: the response curve that main pickles
main_finish ==
    /\ main_pc = "loop"
    /\ batch >= args.num_batches
    /\ response_curve' = [i \in 1..Len(experiments) |-> SeqMax(experiments[i].responses)]
    /\ main_pc' = "done"
    /\ UNCHANGED <<data, args, experiments, batch>>
    /\ UNCHANGED not_main

NextMain == main_loop \/ main_finish

SpecMain == InitMain /\ [][NextMain]_vars

----------------------------------------------------------------------------
(* One design search, step by step *)

InitSearch ==
    /\ IdleMain
    /\ IdleLinear
    /\ IdleModel
    /\ IdleSampler
    /\ s_request \in [experiment : InitialExperiments(load_tf_data(CHOOSE r \in ResponseTables : r[1] = 1), 1),
                      design_size : BatchSizes,
                      thompson_temperature : {1},
                      features : Features]
    /\ s_call = <<>>
    /\ s_state = <<>>
    /\ s_visited = {}
    /\ s_step = 0
    /\ s_result = {}
    /\ s_pc = "idle"

\* make_design is called: thompson_sample fits, draws its Thompson sample
\* and seeds the search
search_start ==
    /\ s_pc = "idle"
    /\ s_call' = make_design(s_request.experiment, s_request.design_size,
                             s_request.thompson_temperature,
                             FeatureBlocks(s_request.features))
    /\ \E pool \in StartingPools(s_call') :
          /\ s_visited' = pool
          /\ s_state' \in pool
    /\ s_step' = 0
    /\ s_pc' = "search"
    /\ UNCHANGED <<s_request, s_result>>
    /\ UNCHANGED not_search

\* one proposal: an infeasible move is rejected outright, a feasible one is
\* accepted or not by the annealing rule
search_step ==
    /\ s_pc = "search"
    /\ s_step < s_call.sa_num_steps
    /\ \E proposal \in LocalMoves(s_call, s_state), accept \in BOOLEAN :
          IF Feasible(s_call.constraints, proposal) /\ accept
          THEN /\ s_state' = proposal
               /\ s_visited' = s_visited \cup {proposal}
          ELSE UNCHANGED <<s_state, s_visited>>
    /\ s_step' = s_step + 1
    /\ UNCHANGED <<s_request, s_call, s_result, s_pc>>
    /\ UNCHANGED not_search

\* the proposal budget is spent: hand back design_size of the designs
\* visited, or fail
search_finish ==
    /\ s_pc = "search"
    /\ s_step >= s_call.sa_num_steps
    /\ IF Cardinality(s_visited) >= s_call.design_size
       THEN /\ s_result' \in {T \in SUBSET s_visited : Cardinality(T) = s_call.design_size}
            /\ s_pc' = "returned"
       ELSE /\ s_result' = {}
            /\ s_pc' = "fatal"
    /\ UNCHANGED <<s_request, s_call, s_state, s_visited, s_step>>
    /\ UNCHANGED not_search

NextSearch == search_start \/ search_step \/ search_finish

SpecSearch == InitSearch /\ [][NextSearch]_vars

----------------------------------------------------------------------------------------------------------------------------------------
(* Calls of linear_response *)

\* the shape model gives the coefficients of a block
BlockShape(schema, block) == [i \in 1..Len(block) |-> Len(schema[block[i]])]

\* the right shape of a block's coefficients and the wrong ones next to it:
\* one dim longer or shorter, one dim more, one dim fewer
ShapeVariants(shape) ==
    {shape, shape \o <<2>>}
        \cup {[shape EXCEPT ![i] = @ + 1] : i \in DOMAIN shape}
        \cup {[shape EXCEPT ![i] = @ - 1] : i \in {j \in DOMAIN shape : shape[j] > 1}}
        \cup (IF Len(shape) > 0 THEN {Tail(shape)} ELSE {})

LinearKeys == <<<<>>, <<1>>, <<2, 3>>>>

\* coefs dicts over LinearKeys, in that order, with or without a None entry
LinearCoefs ==
    LET blocks == {c \in [DOMAIN LinearKeys -> [none : {FALSE},
                                                key : Range(LinearKeys),
                                                coef : UNION {DrawnTensors(sh) :
                                                    sh \in UNION {ShapeVariants(BlockShape(SCHEMA, LinearKeys[k])) :
                                                                    k \in DOMAIN LinearKeys}}]] :
                      \A k \in DOMAIN LinearKeys :
                          /\ c[k].key = LinearKeys[k]
                          /\ c[k].coef.shape \in ShapeVariants(BlockShape(SCHEMA, LinearKeys[k]))}
    IN blocks \cup {Append(c, NoneItem(t)) : c \in blocks, t \in DrawnTensors(<<1>>)}

LinearInputs ==
    [schema : {SCHEMA},
     coefs : LinearCoefs,
     sequence : {<<d>> : d \in Designs(SCHEMA)},
     extra_features : {NoExtra, Extra(<<<<2>>>>)}]

InitLinear ==
    /\ IdleMain
    /\ IdleSearch
    /\ IdleModel
    /\ IdleSampler
    /\ l_in \in LinearInputs
    /\ l_out = <<>>
    /\ l_prev = <<>>
    /\ l_changed = 0
    /\ l_pc = "ready"

\* linear_response is called on the inputs
linear_call ==
    /\ l_pc = "ready"
    /\ l_out' = linear_response(l_in.schema, l_in.coefs, l_in.sequence, l_in.extra_features)
    /\ l_pc' = "called"
    /\ UNCHANGED <<l_in, l_prev, l_changed>>
    /\ UNCHANGED not_linear

\* the category of one variable of the design is changed and
\* linear_response is called again with the same coefficients
linear_change ==
    /\ l_pc = "called"
    /\ \E n \in DOMAIN l_in.schema : \E c \in 0..(Len(l_in.schema[n]) - 1) :
          /\ c # l_in.sequence[1][n]
          /\ l_changed' = n
          /\ l_in' = [l_in EXCEPT !.sequence[1][n] = c]
    /\ l_prev' = [in |-> l_in, out |-> l_out]
    /\ l_out' = linear_response(l_in'.schema, l_in'.coefs, l_in'.sequence, l_in'.extra_features)
    /\ l_pc' = "changed"
    /\ UNCHANGED not_linear

NextLinear == linear_call \/ linear_change

SpecLinear == InitLinear /\ [][NextLinear]_vars

----------------------------------------------------------------------------------------------------------------------------------------
(* model *)

\* a missing optional argument, or its value
None == [none |-> TRUE, value |-> 0]

Some(v) == [none |-> FALSE, value |-> v]

\* a fraction, for responses in the unit interval
Frac(num, den) == [num |-> num, den |-> den]

\* round(): the nearest integer of num / den >= 0, a tie going to the even one
RoundHalfEven(num, den) ==
    LET fl == num \div den
        rem == num % den
    IN IF 2 * rem < den THEN fl
       ELSE IF 2 * rem > den THEN fl + 1
       ELSE IF fl % 2 = 0 THEN fl ELSE fl + 1

\* the observation cut down instead of rounded
quantize_floor(response, quantization_bins) ==
    (response.num * quantization_bins) \div response.den

\* (response * quantization_bins).round() for one row
quantize(response, quantization_bins) ==
    RoundHalfEven(response.num * quantization_bins, response.den)

\* a sample or deterministic site of the trace: its name, and for the
\* per-block sites the schema positions that make its suffix
Site(name) == [name |-> name, ps |-> <<>>]

BlockSite(name, block) == [name |-> name, ps |-> [i \in 1..Len(block) |-> block[i] - 1]]

Sampled(trace, name) == \E i \in DOMAIN trace : trace[i].name = name

\* validate(schema, experiment=experiment): the shape and range relations
\* of a well-formed experiment
validate(schema, experiment) ==
    /\ Len(experiment.batch_ids) = Len(experiment.sequences)
    /\ experiment.responses.none
          \/ Len(experiment.responses.value) = Len(experiment.sequences)
    /\ \A r \in DOMAIN experiment.sequences :
          /\ Len(experiment.sequences[r]) = Len(schema)
          /\ \A n \in DOMAIN schema :
                experiment.sequences[r][n] \in 0..(Len(schema[n]) - 1)
    /\ \A r \in DOMAIN experiment.batch_ids : experiment.batch_ids[r] >= 0

\* the number of batches taken to be the number of distinct batch ids
BatchCountDistinct(in) == Cardinality(Range(in.experiment.batch_ids))

\* B = 1 + max_batch_id, max_batch_id defaulting to the largest batch id
BatchCount(in) ==
    1 + (IF in.max_batch_id.none
         THEN SeqMax(in.experiment.batch_ids)
         ELSE in.max_batch_id.value)

\* the rows of the experiments given to model
ModelRows == 1..2

ModelSequences ==
    { [r \in ModelRows |-> [n \in DOMAIN SCHEMA |-> 0]],
      [r \in ModelRows |-> [n \in DOMAIN SCHEMA |-> IF n = 2 THEN r - 1 ELSE 1]] }

ObservedResponses == {Frac(1, 2), Frac(3, 4)}

ModelExperiments ==
    [sequences : ModelSequences,
     batch_ids : [ModelRows -> 0..MaxBatchId],
     responses : {None} \cup {Some([r \in ModelRows |-> x]) : x \in ObservedResponses}]
        \cup {[sequences |-> [r \in ModelRows |-> [n \in DOMAIN SCHEMA |-> 0]],
               batch_ids |-> <<0, 0, 0>>,
               responses |-> None]}

ModelInputs ==
    [schema : {SCHEMA},
     feature_blocks : {<< <<1>>, <<2, 3>> >>},
     extra_features : {NoExtra,
                       Extra([r \in ModelRows |-> <<r>>]),
                       Extra(<<<<1>>>>)},
     experiment : ModelExperiments,
     max_batch_id : {None} \cup {Some(b) : b \in 0..MaxBatchId},
     response_type : {"real", "unit_interval", "count"},
     quantization_bins : 1..MaxBins]

\* the tensors a coefficient draw of model is taken from
ModelTensors(shape) == {Ramp(shape, a) : a \in {0, 1}}

\* the offsets a batch_response draw of B batches is taken from
DrawnOffsets(B) == {[b \in 1..B |-> a * 10 * b] : a \in {0, 1}}

\* the counts a Binomial(quantization_bins, logits) draw of N rows is taken from
DrawnCounts(N, bins) ==
    {[r \in 1..N |-> c] : c \in 0..bins} \cup {[r \in 1..N |-> (r - 1) % (bins + 1)]}

\* the values a Normal draw of N responses is taken from
DrawnReals(N) == {[r \in 1..N |-> Frac(0 - r, 1)], [r \in 1..N |-> Frac(3 * r, 2)]}

InitModel ==
    /\ IdleMain
    /\ IdleSearch
    /\ IdleLinear
    /\ IdleSampler
    /\ m_in \in ModelInputs
    /\ m_pc = "enter"
    /\ m_trace = <<>>
    /\ m_coefs = <<>>
    /\ m_loc = [response_loc |-> <<>>, batch_response |-> <<>>, within_batch_loc |-> <<>>]
    /\ m_obs = [quantized |-> <<>>, responses |-> <<>>]
    /\ m_error = "none"

\* lines 81-90: max_batch_id, N, B and the validation of the inputs
model_enter ==
    /\ m_pc = "enter"
    /\ IF ~validate(m_in.schema, m_in.experiment)
       THEN m_pc' = "raised" /\ m_error' = "ValidationError"
       ELSE IF /\ ~m_in.extra_features.none
               /\ Len(m_in.extra_features.rows) # Len(m_in.experiment.sequences)
       THEN m_pc' = "raised" /\ m_error' = "AssertionError"
       ELSE m_pc' = "hyper" /\ m_error' = "none"
    /\ UNCHANGED <<m_in, m_trace, m_coefs, m_loc, m_obs>>
    /\ UNCHANGED not_model

\* lines 93-94: the two hyperparameters of the coefficient scales
model_sample_hyper ==
    /\ m_pc = "hyper"
    /\ m_trace' = m_trace \o <<Site("coef_scale_loc"), Site("coef_scale_scale")>>
    /\ m_pc' = "blocks"
    /\ UNCHANGED <<m_in, m_coefs, m_loc, m_obs, m_error>>
    /\ UNCHANGED not_model

\* lines 97-111: one pass of the loop over the constant block and the
\* feature blocks
model_sample_block ==
    /\ m_pc = "blocks"
    /\ Len(m_coefs) < 1 + Len(m_in.feature_blocks)
    /\ LET block == (<< <<>> >> \o m_in.feature_blocks)[Len(m_coefs) + 1]
           shape == BlockShape(m_in.schema, block)
       IN /\ m_trace' = m_trace \o <<BlockSite("coef_scale_", block),
                                     BlockSite("coef_", block)>>
          /\ \E t \in ModelTensors(shape) : m_coefs' = Append(m_coefs, Item(block, t))
    /\ UNCHANGED <<m_in, m_pc, m_loc, m_obs, m_error>>
    /\ UNCHANGED not_model

\* lines 112-128: the coefficients of the extra features, then the linear
\* response of every row
model_linear_response ==
    /\ m_pc = "blocks"
    /\ Len(m_coefs) >= 1 + Len(m_in.feature_blocks)
    /\ IF m_in.extra_features.none
       THEN UNCHANGED <<m_trace, m_coefs>>
       ELSE /\ m_trace' = m_trace \o <<Site("coef_scale"), Site("coef")>>
            /\ \E t \in ModelTensors(<<Len(m_in.extra_features.rows[1])>>) :
                  m_coefs' = Append(m_coefs, NoneItem(t))
    /\ LET out == linear_response(m_in.schema, m_coefs', m_in.experiment.sequences,
                                  m_in.extra_features)
       IN IF out.error # "none"
          THEN /\ m_pc' = "raised"
               /\ m_error' = out.error
               /\ UNCHANGED m_loc
          ELSE /\ m_pc' = "noise"
               /\ m_loc' = [m_loc EXCEPT !.response_loc = out.value]
               /\ UNCHANGED m_error
    /\ UNCHANGED <<m_in, m_obs>>
    /\ UNCHANGED not_model

\* lines 130-143: the within-batch scale and the batch effect
model_batch_effect ==
    /\ m_pc = "noise"
    /\ LET B == BatchCount(m_in)
           ids == m_in.experiment.batch_ids
       IN IF B = 1
          THEN /\ m_trace' = Append(m_trace, Site("within_batch_scale"))
               /\ m_loc' = [m_loc EXCEPT !.within_batch_loc = m_loc.response_loc]
               /\ m_pc' = "likelihood"
               /\ UNCHANGED m_error
          ELSE /\ m_trace' = m_trace \o <<Site("within_batch_scale"),
                                          Site("across_batch_scale"),
                                          Site("batch_response")>>
               /\ \E batch_response \in DrawnOffsets(B) :
                     IF \E r \in DOMAIN ids : ids[r] >= B
                     THEN /\ m_loc' = [m_loc EXCEPT !.batch_response = batch_response]
                          /\ m_pc' = "raised"
                          /\ m_error' = "IndexError"
                     ELSE /\ m_loc' = [m_loc EXCEPT
                                 !.batch_response = batch_response,
                                 !.within_batch_loc =
                                     [r \in DOMAIN ids |->
                                         m_loc.response_loc[r] + batch_response[ids[r] + 1]]]
                          /\ m_pc' = "likelihood"
                          /\ UNCHANGED m_error
    /\ UNCHANGED <<m_in, m_coefs, m_obs>>
    /\ UNCHANGED not_model

\* lines 146-175: the likelihood of the chosen response type
model_likelihood ==
    /\ m_pc = "likelihood"
    /\ LET N == Len(m_in.experiment.sequences)
           bins == m_in.quantization_bins
           response == m_in.experiment.responses
       IN CASE m_in.response_type = "real" ->
                 /\ m_trace' = Append(m_trace, Site("responses"))
                 /\ IF response.none
                    THEN \E x \in DrawnReals(N) : m_obs' = [m_obs EXCEPT !.responses = x]
                    ELSE UNCHANGED m_obs
                 /\ m_pc' = "returned"
                 /\ UNCHANGED m_error
            [] m_in.response_type = "unit_interval" ->
                 /\ IF response.none
                    THEN /\ m_trace' = m_trace \o <<Site("logits"),
                                                    Site("quantized_response"),
                                                    Site("responses")>>
                         /\ \E q \in DrawnCounts(N, bins) :
                               m_obs' = [quantized |-> q,
                                         responses |-> [r \in 1..N |-> Frac(q[r], bins)]]
                    ELSE /\ m_trace' = m_trace \o <<Site("logits"),
                                                    Site("quantized_response")>>
                         /\ m_obs' = [m_obs EXCEPT !.quantized =
                                        [r \in 1..N |-> quantize(response.value[r], bins)]]
                 /\ m_pc' = "returned"
                 /\ UNCHANGED m_error
            [] OTHER ->
                 /\ m_pc' = "raised"
                 /\ m_error' = "ValueError"
                 /\ UNCHANGED <<m_trace, m_obs>>
    /\ UNCHANGED <<m_in, m_coefs, m_loc>>
    /\ UNCHANGED not_model

NextModel ==
    \/ model_enter
    \/ model_sample_hyper
    \/ model_sample_block
    \/ model_linear_response
    \/ model_batch_effect
    \/ model_likelihood

SpecModel == InitModel /\ [][NextModel]_vars

----------------
(* fit_mcmc and Sampler *)

SamplerSites == <<"coef_scale_loc", "coef_">>

\* what mcmc.get_samples() can hold: for each latent site of the model, in
\* order, a batch of n draws
SampleSets(n) ==
    UNION {{smp \in [1..m -> [name : Range(SamplerSites), draws : [1..n -> 0..MaxCoef]]] :
              \A k \in 1..m : smp[k].name = SamplerSites[k]} : m \in 0..Len(SamplerSites)}

InitSampler ==
    /\ IdleMain
    /\ IdleSearch
    /\ IdleLinear
    /\ IdleModel
    /\ f_samples = <<>>
    /\ f_sampler = <<>>
    /\ f_last = [status |-> "none", i |-> 0, sample |-> <<>>]
    /\ f_pc = "idle"

\* fit_mcmc: run MCMC, take its samples and build the Sampler
\* (Sampler.__init__ measures the first value of the dict)
fit_mcmc ==
    /\ f_pc = "idle"
    /\ \E n \in 0..MaxDraws : f_samples' \in SampleSets(n)
    /\ IF Len(f_samples') = 0
       THEN /\ f_sampler' = <<>>
            /\ f_pc' = "StopIteration"
       ELSE /\ f_sampler' = [num_samples |-> Len(f_samples'[1].draws)]
            /\ f_pc' = "built"
    /\ UNCHANGED f_last
    /\ UNCHANGED not_sampler

\* Sampler.__call__ drawing an index for every site on its own
Sampler_call_per_site ==
    /\ f_pc = "built"
    /\ IF f_sampler.num_samples <= 0
       THEN f_last' = [status |-> "RuntimeError", i |-> 0, sample |-> <<>>]
       ELSE \E i \in 0..(f_sampler.num_samples - 1) :
            \E j \in [DOMAIN f_samples -> 0..(f_sampler.num_samples - 1)] :
               f_last' = [status |-> "returned", i |-> i,
                          sample |-> [k \in DOMAIN f_samples |->
                                        [name |-> f_samples[k].name,
                                         value |-> f_samples[k].draws[j[k] + 1]]]]
    /\ UNCHANGED <<f_samples, f_sampler, f_pc>>
    /\ UNCHANGED not_sampler

\* Sampler.__call__: torch.randint(0, num_samples, ()) raises on an empty
\* range, else every site is taken at the index drawn
Sampler_call ==
    /\ f_pc = "built"
    /\ IF f_sampler.num_samples <= 0
       THEN f_last' = [status |-> "RuntimeError", i |-> 0, sample |-> <<>>]
       ELSE \E i \in 0..(f_sampler.num_samples - 1) :
               f_last' = [status |-> "returned", i |-> i,
                          sample |-> [k \in DOMAIN f_samples |->
                                        [name |-> f_samples[k].name,
                                         value |-> f_samples[k].draws[i + 1]]]]
    /\ UNCHANGED <<f_samples, f_sampler, f_pc>>
    /\ UNCHANGED not_sampler

NextSampler == fit_mcmc \/ Sampler_call

SpecSampler == InitSampler /\ [][NextSampler]_vars

----------------
(* Claims about the rollout driver (SpecMain) *)

ExperimentFields == {"sequences", "responses", "batch_ids"}

\* rows of experiments[r] that round r - 1 added
NewRows(r) ==
    (Len(experiments[r - 1].batch_ids) + 1)..Len(experiments[r].batch_ids)

\* C1: the batch ids update_experiment gives the rows of a round are strictly
\* greater than every batch id of the experiment the round extends
C1_NewBatchIdsGreater ==
    \A r \in 2..Len(experiments) :
        \A i \in NewRows(r) :
            \A j \in 1..Len(experiments[r - 1].batch_ids) :
                experiments[r].batch_ids[i] > experiments[r - 1].batch_ids[j]

\* C2: a round appends to experiments an experiment whose every field has
\* n + k rows, the first n being the rows of the experiment it was given,
\* in order, and leaves every experiment already in the list as it was
C2_UpdateAppendsAndKeeps ==
    [][ /\ \A i \in DOMAIN experiments :
              i \in DOMAIN experiments' /\ experiments'[i] = experiments[i]
        /\ Len(experiments') > Len(experiments) =>
              LET old == experiments[Len(experiments)]
                  new == experiments'[Len(experiments')]
                  k == args.num_sequences_per_batch
              IN /\ Len(experiments') = Len(experiments) + 1
                 /\ DOMAIN new = ExperimentFields
                 /\ \A f \in ExperimentFields :
                       /\ Len(new[f]) = Len(old[f]) + k
                       /\ SubSeq(new[f], 1, Len(old[f])) = old[f] ]_vars

\* C2 witness: two rounds of two designs each have run, and the latest
\* experiment holds rows that differ from the ones it started with
C2_Witness ==
    /\ Len(experiments) = 3
    /\ args.num_sequences_per_batch = 2
    /\ Len(experiments[3].sequences) = Len(experiments[1].sequences) + 4
    /\ experiments[3].sequences[2] # experiments[3].sequences[1]

\* C10: every experiment of the list extends the one before it, and the
\* response curve main records has num_batches + 1 entries and never falls
C10_CurveNonDecreasing ==
    /\ \A r \in 2..Len(experiments) :
          SubSeq(experiments[r].responses, 1, Len(experiments[r - 1].responses))
              = experiments[r - 1].responses
    /\ Len(experiments) = batch + 1
    /\ main_pc = "done" =>
          /\ Len(response_curve) = args.num_batches + 1
          /\ \A i \in 1..Len(response_curve) :
                response_curve[i] = SeqMax(experiments[i].responses)
          /\ \A i \in 1..(Len(response_curve) - 1) :
                response_curve[i] <= response_curve[i + 1]

\* C10 witness: the rollout is over and the curve rose in its last round
C10_Witness ==
    /\ main_pc = "done"
    /\ Len(response_curve) = NumBatches + 1
    /\ response_curve[1] < response_curve[NumBatches]
    /\ response_curve[NumBatches] < response_curve[NumBatches + 1]

----------------------------------------------------------------------------------------------------------------------------------------
(* Claims about linear_response (SpecLinear) *)

\* every block's coefficients have one dim per variable of the block, each
\* sized to that variable's domain
WellShaped(schema, coefs) ==
    \A k \in DOMAIN coefs :
        ~coefs[k].none => coefs[k].coef.shape = BlockShape(schema, coefs[k].key)

\* the contribution of one entry of coefs to the response of the design
Term(in, k) ==
    IF in.coefs[k].none
    THEN Dot(in.extra_features.rows[1], in.coefs[k].coef)
    ELSE in.coefs[k].coef.val[KeyIndex(in.coefs[k].key, in.sequence[1])]

RECURSIVE SumOver(_, _, _)
\* the sum of f[k] over the entries k of a set
SumOver(f, S, acc) ==
    IF S = {} THEN acc
    ELSE LET k == CHOOSE x \in S : TRUE IN SumOver(f, S \ {k}, acc + f[k])

\* the entries of coefs whose block contains variable n
BlocksWith(in, n) ==
    {k \in DOMAIN in.coefs : ~in.coefs[k].none /\ n \in Range(in.coefs[k].key)}

\* C6: on well-shaped coefficients linear_response returns the sum of the
\* per-block lookups (and the extra-features product under the None key);
\* changing one variable's category changes the result by the change of the
\* terms of the blocks that contain the variable, every other term staying
C6_LinearResponseIsBlockSum ==
    (/\ l_pc \in {"called", "changed"}
     /\ WellShaped(l_in.schema, l_in.coefs)
     /\ LinearPreconditions(l_in.schema, l_in.coefs, l_in.sequence, l_in.extra_features))
    => /\ l_out.error = "none"
       /\ l_out.value[1] =
             SumOver([k \in DOMAIN l_in.coefs |-> Term(l_in, k)], DOMAIN l_in.coefs, 0)
       /\ l_pc = "changed" =>
             /\ \A k \in DOMAIN l_in.coefs \ BlocksWith(l_in, l_changed) :
                   Term(l_in, k) = Term(l_prev.in, k)
             /\ l_out.value[1] - l_prev.out.value[1] =
                   SumOver([k \in DOMAIN l_in.coefs |-> Term(l_in, k) - Term(l_prev.in, k)],
                           BlocksWith(l_in, l_changed), 0)

\* C6 witness: with a None entry among well-shaped coefficients, a change
\* of variable 3 moved the response
C6_Witness ==
    /\ l_pc = "changed"
    /\ WellShaped(l_in.schema, l_in.coefs)
    /\ LinearPreconditions(l_in.schema, l_in.coefs, l_in.sequence, l_in.extra_features)
    /\ HasNone(l_in.coefs)
    /\ l_changed = 3
    /\ l_out.value[1] # l_prev.out.value[1]

\* C7: coefficients that break the shape relation (a wrong number of dims,
\* or a dim whose size is not the variable's domain size) make
\* linear_response raise
C7_MisshapenCoefsRaise ==
    (l_pc = "called" /\ ~WellShaped(l_in.schema, l_in.coefs))
        => l_out.error # "none"

----------------------------------------------------------------------------------------------------------------------------------------
(* Claims about model (SpecModel) *)

\* C3: when model fails on an unknown response_type, it is with ValueError
\* and no sample site has been drawn yet
C3_UnknownTypeFailsBeforeSampling ==
    /\ (m_pc \in {"returned", "raised"}
          /\ m_error \notin {"ValidationError", "AssertionError", "IndexError"}
          /\ m_in.response_type \notin {"real", "unit_interval"})
          => m_error = "ValueError"
    /\ m_error = "ValueError" => m_trace = <<>>

\* the batch effect has been passed: within_batch_scale is drawn
PastBatchEffect == Sampled(m_trace, "within_batch_scale")

BatchEffectSkipped ==
    /\ ~Sampled(m_trace, "across_batch_scale")
    /\ ~Sampled(m_trace, "batch_response")
    /\ m_loc.batch_response = <<>>
    /\ m_loc.within_batch_loc = m_loc.response_loc

C4_SkipReached ==
    /\ m_pc = "likelihood"
    /\ m_in.experiment.batch_ids = <<0, 1>>
    /\ m_in.max_batch_id = Some(0)
    /\ BatchEffectSkipped

\* the block coefficients model has drawn have one dim per variable of the
\* block, each sized to the variable's domain
ModelCoefsWellShaped == WellShaped(m_in.schema, m_coefs)

\* C9: under unit_interval, without observed responses every row's
\* "responses" value is its quantized count, an integer in
\* 0..quantization_bins, over quantization_bins, and so lies in [0, 1]; with
\* observed responses the count conditioned on is the response times
\* quantization_bins, rounded, and no "responses" value is emitted
C9_UnitIntervalResponses ==
    (m_pc = "returned" /\ m_in.response_type = "unit_interval") =>
        LET bins == m_in.quantization_bins
            response == m_in.experiment.responses
            rows == DOMAIN m_in.experiment.sequences
        IN /\ Sampled(m_trace, "quantized_response")
           /\ DOMAIN m_obs.quantized = rows
           /\ IF response.none
              THEN /\ Sampled(m_trace, "responses")
                   /\ DOMAIN m_obs.responses = rows
                   /\ \A r \in rows :
                         /\ m_obs.quantized[r] \in 0..bins
                         /\ m_obs.responses[r] = Frac(m_obs.quantized[r], bins)
                         /\ 0 <= m_obs.responses[r].num
                         /\ m_obs.responses[r].num <= m_obs.responses[r].den
              ELSE /\ ~Sampled(m_trace, "responses")
                   /\ m_obs.responses = <<>>
                   /\ \A r \in rows :
                         LET q == m_obs.quantized[r]
                             x == response.value[r]
                             d == q * x.den - x.num * bins
                         IN /\ 2 * d <= x.den
                            /\ 2 * d >= 0 - x.den
                            /\ (2 * d = x.den \/ 2 * d = 0 - x.den) => q % 2 = 0

\* C9 witness: a simulated row drew the full count and was exposed as 1
C9_Witness ==
    /\ m_pc = "returned"
    /\ m_in.response_type = "unit_interval"
    /\ m_in.experiment.responses.none
    /\ m_in.quantization_bins = 2
    /\ m_obs.quantized[2] = 1
    /\ m_obs.responses[2] = Frac(1, 2)

\* C9 witness of the observed case: 3/4 of two bins, a tie, was rounded to 2
C9_ObservedReached ==
    /\ m_pc = "returned"
    /\ m_in.response_type = "unit_interval"
    /\ m_in.experiment.responses = Some(<<Frac(3, 4), Frac(3, 4)>>)
    /\ m_in.quantization_bins = 2
    /\ m_obs.quantized = <<2, 2>>

----------------
(* Claims about Sampler (SpecSampler) *)

\* the sample set holds no draw
EmptySamples == Len(f_samples) = 0 \/ Len(f_samples[1].draws) = 0

\* a call that returned took every site at the one index it drew
SameIndexDraw ==
    f_last.status = "returned" =>
        /\ f_last.i \in 0..(Len(f_samples[1].draws) - 1)
        /\ DOMAIN f_last.sample = DOMAIN f_samples
        /\ \A k \in DOMAIN f_samples :
              /\ f_last.sample[k].name = f_samples[k].name
              /\ f_last.sample[k].value = f_samples[k].draws[f_last.i + 1]

\* C8 as stated: building a Sampler from a sample set with no draws fails
\* when fit_mcmc builds it; no Sampler of zero draws returns a sample; a
\* Sampler of num_samples draws returns every site at one index below it
C8_EmptyFailsAtFit ==
    /\ (f_pc # "idle" /\ EmptySamples) => f_pc \notin {"built"}
    /\ EmptySamples => f_last.status # "returned"
    /\ SameIndexDraw

\* C8 as amended: a sample set with no site fails in Sampler.__init__; one
\* whose sites hold zero draws builds a Sampler of num_samples = 0 whose
\* every call raises; no Sampler of zero draws returns a sample; a Sampler
\* of num_samples draws returns every site at one index below it
C8_EmptyFailsAtCall ==
    /\ f_pc = "StopIteration" <=> (f_pc # "idle" /\ Len(f_samples) = 0)
    /\ f_pc = "built" => f_sampler.num_samples = Len(f_samples[1].draws)
    /\ EmptySamples => f_last.status # "returned"
    /\ f_last.status = "RuntimeError" <=>
          (f_last.status # "none" /\ f_pc = "built" /\ EmptySamples)
    /\ SameIndexDraw

\* C8 witness: a Sampler of zero draws was built and its call raised
C8_Witness ==
    /\ f_pc = "built"
    /\ Len(f_samples) = 2
    /\ f_sampler.num_samples = 0
    /\ f_last.status = "RuntimeError"

\* C8 witness of a draw: the second of three differing draws was returned
C8_DrawReached ==
    /\ f_last.status = "returned"
    /\ Len(f_samples) = 2
    /\ f_sampler.num_samples = 3
    /\ f_last.i = 1
    /\ f_samples[2].draws[1] # f_samples[2].draws[2]

----------------
(* Claims about the design search (SpecSearch) *)

\* C5: a search that returns hands back exactly the design_size designs its
\* caller asked for, all distinct and feasible; one that visited fewer than
\* that many feasible designs fails and hands back nothing
C5_SearchReturnsFullBatch ==
    /\ s_pc = "returned" =>
          /\ Cardinality(s_result) = s_request.design_size
          /\ s_result \subseteq Designs(SCHEMA)
          /\ \A d \in s_result : Feasible(CONSTRAINTS, d)
          /\ s_step = SaNumSteps
    /\ (s_pc \in {"returned", "fatal"}
          /\ Cardinality(s_visited) < s_request.design_size) =>
             s_pc = "fatal"
    /\ s_pc = "fatal" =>
          /\ s_result = {}
          /\ Cardinality(s_visited) < s_request.design_size

\* C5 witness: a search asked for two designs returned two
C5_Witness ==
    /\ s_pc = "returned"
    /\ s_request.design_size = 2
    /\ Cardinality(s_result) = 2

\* C5 witness of the failure: a search asked for two designs visited one
C5_FatalReached ==
    /\ s_pc = "fatal"
    /\ s_request.design_size = 2
    /\ Cardinality(s_visited) = 1

====
